---- MODULE Spec2Model ----
(***************************************************************************)
(* Model of the sheet-export pipeline: src/index.js (variant "index",      *)
(* pLimit(2), one task per chunk doing export then conversion) and         *)
(* src/unnamed/part_000 (variant "part", pLimit(4), an export phase        *)
(* followed by a conversion phase).                                        *)
(*                                                                         *)
(* Three specifications share the definitions below:                       *)
(*   SpecPlan   the chunk-building loop alone, on a wide range of inputs;  *)
(*   SpecFetch  fetchPdfWithRetry alone, several calls interleaved, with   *)
(*              the history of each call recorded;                         *)
(*   Spec       main(): the sheet loop, the limiter, the chunk tasks, the  *)
(*              sort and the album upload.                                 *)
(***************************************************************************)
EXTENDS Integers, Sequences, FiniteSets, TLC

VARIABLES
    variant,            \* "index" (src/index.js) or "part" (src/unnamed/part_000)
    MAX_ROWS_PER_FILE,  \* Number(process.env.MAX_ROWS_PER_FILE || '40')
    sheet,              \* position of the for..of loop in SHEET_NAMES (1-based)
    mainPc,             \* where main() is suspended
    lastRow,            \* let lastRow
    startRow,           \* let startRow
    chunks,             \* let chunks = []
    activeCount,        \* p-limit: number of running functions
    queue,              \* p-limit: pending functions (task indices), FIFO
    tasks,              \* the promises of the current chunks.map(limit(...))
    reversed,           \* the current promises have settled in descending order so far
    pdfResults,         \* part_000: const pdfResults (sorted)
    album,              \* const media: the album of the sheet being processed
    sent,               \* the sheets whose album was handed to axios.post(.../sendMediaGroup)
    caught,             \* what main's catch (err) received: "none", or the failed stage
    fetchers,           \* SpecFetch: the calls of fetchPdfWithRetry
    occupied,           \* the last non-empty row of colVals, 0 when it has none
    tmpDir,             \* the directory made by fs.mkdtempSync exists
    files               \* the files in tmpDir, each with the chunk (startRow) that wrote it

vars == <<variant, MAX_ROWS_PER_FILE, sheet, mainPc, lastRow, startRow, chunks,
          activeCount, queue, tasks, reversed, pdfResults, album, sent, caught, fetchers, occupied, tmpDir, files>>

mainVars == <<variant, MAX_ROWS_PER_FILE, sheet, mainPc, lastRow, startRow, chunks,
              activeCount, queue, tasks, reversed, pdfResults, album, sent, caught, occupied, tmpDir, files>>

-----------------------------------------------------------------------------
(* Bounds of the model *)

\* SpecPlan: largest lastRow and largest MAX_ROWS_PER_FILE tried
MaxLastRow == 50
MaxRowsPerFile == 40
\* Spec: largest number of rows in column K and largest MAX_ROWS_PER_FILE
PipeMaxLastRow == 5
PipeMaxRows == 2
\* SpecLive: largest number of rows in column K
LiveMaxLastRow == 3
\* SpecFetch: number of concurrent calls of fetchPdfWithRetry
NumFetchers == 2

(* Program constants *)

\* SHEET_NAMES defaults to 'Ladi,Mydu'
NumSheets == 2
\* attempt < 5
MaxAttempts == 5
\* 2000 * attempt
BaseDelay == 2000

Min(a, b) == IF a < b THEN a ELSE b

Last(s) == s[Len(s)]

-----------------------------------------------------------------------------
(* The chunk-building loop *)

\* faulty variant: the - 1 is dropped
EndRowOffByOne(start, maxRows, last) == Min(start + maxRows, last)

\* Math.min(startRow + MAX_ROWS_PER_FILE - 1, lastRow)
EndRowOf(start, maxRows, last) == Min(start + maxRows - 1, last)

\* faulty variant: a row is skipped between chunks
NextStartSkips(endRow) == endRow + 2

\* startRow = endRow + 1
NextStart(endRow) == endRow + 1

\* one iteration of: while (startRow <= lastRow) { ... }
BuildStep ==
    /\ mainPc = "build"
    /\ startRow <= lastRow
    /\ LET endRow == EndRowOf(startRow, MAX_ROWS_PER_FILE, lastRow)
       IN  /\ chunks' = Append(chunks, [startRow |-> startRow, endRow |-> endRow])
           /\ startRow' = NextStart(endRow)
    /\ UNCHANGED <<variant, MAX_ROWS_PER_FILE, sheet, mainPc, lastRow, activeCount,
                   queue, tasks, reversed, pdfResults, album, sent, caught, fetchers, occupied, tmpDir, files>>

\* the loop condition is false: chunks is final
Planned == mainPc = "build" /\ ~(startRow <= lastRow)

InitPlan ==
    /\ variant \in {"index", "part"}
    /\ MAX_ROWS_PER_FILE \in 1..MaxRowsPerFile
    /\ lastRow \in 1..MaxLastRow
    /\ sheet = 1
    /\ mainPc = "build"
    /\ startRow = 1
    /\ chunks = <<>>
    /\ activeCount = 0
    /\ queue = <<>>
    /\ tasks = <<>>
    /\ reversed = TRUE
    /\ pdfResults = <<>>
    /\ album = <<>>
    /\ sent = <<>>
    /\ caught = "none"
    /\ fetchers = <<>>
    /\ occupied = 1
    /\ tmpDir = TRUE
    /\ files = {}

NextPlan == BuildStep

SpecPlan == InitPlan /\ [][NextPlan]_vars /\ WF_vars(BuildStep)

Size(c) == c.endRow - c.startRow + 1

ExactCover(cs, last) ==
    /\ Len(cs) >= 1
    /\ cs[1].startRow = 1
    /\ cs[Len(cs)].endRow = last
    /\ \A i \in 1..Len(cs) : cs[i].startRow <= cs[i].endRow
    /\ \A i \in 1..(Len(cs) - 1) : cs[i + 1].startRow = cs[i].endRow + 1

\* C1: for every lastRow >= 1 and MAX_ROWS_PER_FILE >= 1 the loop terminates and
\* the chunks are ascending, non-empty, start at row 1, end at lastRow and each
\* starts one row after the previous one's end.
PlanTerminatesWithExactCover == <>[](Planned /\ ExactCover(chunks, lastRow))

\* C1 witness: a finished plan of several chunks whose last chunk is shorter
PlanCoverWitness ==
    /\ Planned
    /\ Len(chunks) >= 3
    /\ Size(Last(chunks)) < MAX_ROWS_PER_FILE
    /\ ExactCover(chunks, lastRow)

\* The merge the specification describes: with >= 2 chunks and a final chunk of
\* fewer than threshold rows, the predecessor is extended to the final chunk's end
\* and the final chunk is dropped.
MergeTrailing(cs, threshold) ==
    IF Len(cs) >= 2 /\ Size(Last(cs)) < threshold
    THEN [i \in 1..(Len(cs) - 1) |->
             IF i = Len(cs) - 1
             THEN [startRow |-> cs[i].startRow, endRow |-> Last(cs).endRow]
             ELSE cs[i]]
    ELSE cs

\* C2 as stated: the final plan is the loop's output with a trailing chunk of
\* fewer than mergeThreshold = 9 rows merged into its predecessor.
TrailingChunkMerged == Planned => chunks = MergeTrailing(chunks, 9)

NumChunks(last, maxRows) == (last + maxRows - 1) \div maxRows

\* C2 amended: the plan is never merged: it has ceil(lastRow / MAX_ROWS_PER_FILE)
\* chunks, a short trailing chunk stays a chunk of its own, and lastRow = 45 with
\* MAX_ROWS_PER_FILE = 40 yields the two chunks [1,40] and [41,45].
TrailingChunkNeverMerged ==
    Planned =>
        /\ Len(chunks) = NumChunks(lastRow, MAX_ROWS_PER_FILE)
        /\ Last(chunks) = [startRow |-> (Len(chunks) - 1) * MAX_ROWS_PER_FILE + 1,
                           endRow |-> lastRow]
        /\ (lastRow = 45 /\ MAX_ROWS_PER_FILE = 40 =>
               chunks = << [startRow |-> 1, endRow |-> 40],
                           [startRow |-> 41, endRow |-> 45] >>)

\* C2 witness: the plan of lastRow = 45, MAX_ROWS_PER_FILE = 40 is finished and its
\* trailing chunk has 5 rows
ShortTrailingChunkWitness ==
    /\ Planned
    /\ lastRow = 45
    /\ MAX_ROWS_PER_FILE = 40
    /\ Len(chunks) = 2
    /\ Size(Last(chunks)) = 5

\* C3: when the final chunk has at least mergeThreshold = 9 rows it is a chunk of
\* its own and every earlier chunk has exactly MAX_ROWS_PER_FILE rows; lastRow = 50
\* with MAX_ROWS_PER_FILE = 40 yields exactly [1,40] and [41,50].
LargeTrailingChunkKept ==
    (Planned /\ Len(chunks) >= 1 /\ Size(Last(chunks)) >= 9) =>
        /\ \A i \in 1..(Len(chunks) - 1) : Size(chunks[i]) = MAX_ROWS_PER_FILE
        /\ Last(chunks).endRow = lastRow
        /\ Last(chunks).startRow = chunks[1].startRow + (Len(chunks) - 1) * MAX_ROWS_PER_FILE
        /\ (lastRow = 50 /\ MAX_ROWS_PER_FILE = 40 =>
               chunks = << [startRow |-> 1, endRow |-> 40],
                           [startRow |-> 41, endRow |-> 50] >>)

\* C3 witness: the plan of lastRow = 50, MAX_ROWS_PER_FILE = 40 is finished with a
\* trailing chunk of 10 rows
LargeTrailingChunkWitness ==
    /\ Planned
    /\ lastRow = 50
    /\ MAX_ROWS_PER_FILE = 40
    /\ Len(chunks) = 2
    /\ Size(Last(chunks)) = 10

-----------------------------------------------------------------------------
(* fetchPdfWithRetry *)

\* What axios.get settles with: a 2xx response resolves; any other status rejects
\* with err.response set; a failure without an HTTP response (network, bad
\* credential, timeout) rejects with err.response undefined.
Http(code) == [response |-> TRUE, status |-> code]

NoResponse == [response |-> FALSE, status |-> 0]

Outcomes == {Http(200), Http(429), Http(500), NoResponse}

Resolves(r) == r.response /\ r.status = 200

\* faulty variant: attempt <= 5
RetryableOneMore(err, attempt) ==
    err.response /\ err.status = 429 /\ attempt <= MaxAttempts

\* faulty variant: the status is not looked at
RetryableAnyStatus(err, attempt) ==
    err.response /\ attempt < MaxAttempts

\* err.response && err.response.status === 429 && attempt < 5
Retryable(err, attempt) ==
    err.response /\ err.status = 429 /\ attempt < MaxAttempts

\* faulty variant: the wait does not grow with the attempt
DelayFlat(attempt) == BaseDelay

\* const delay = 2000 * attempt
Delay(attempt) == BaseDelay * attempt

\* faulty variant: the attempt number advances by two
NextAttemptSkips(attempt) == attempt + 2

\* fetchPdfWithRetry(url, headers, attempt + 1)
NextAttempt(attempt) == attempt + 1

Fetchers == 1..NumFetchers

\* A call of fetchPdfWithRetry: pc is where it stands, attempt its parameter in
\* the innermost frame; calls counts the axios.get invocations, hist lists what
\* they settled with and waited the delays slept, in order.
IdleFetcher == [pc |-> "idle", attempt |-> 0, calls |-> 0, hist |-> <<>>, waited |-> <<>>]

InitFetch ==
    /\ fetchers = [i \in Fetchers |-> IdleFetcher]
    /\ occupied = 1
    /\ tmpDir = TRUE
    /\ files = {}
    /\ variant \in {"index", "part"}
    /\ MAX_ROWS_PER_FILE = 40
    /\ sheet = 1
    /\ mainPc = "await"
    /\ lastRow = 1
    /\ startRow = 1
    /\ chunks = <<>>
    /\ activeCount = 0
    /\ queue = <<>>
    /\ tasks = <<>>
    /\ reversed = TRUE
    /\ pdfResults = <<>>
    /\ album = <<>>
    /\ sent = <<>>
    /\ caught = "none"

\* fetchPdfWithRetry(exportUrl, headers): attempt = 1, axios.get is issued
FetchCall(i) ==
    /\ fetchers[i].pc = "idle"
    /\ fetchers' = [fetchers EXCEPT ![i] =
           [pc |-> "get", attempt |-> 1, calls |-> 1, hist |-> <<>>, waited |-> <<>>]]
    /\ UNCHANGED mainVars

\* axios.get resolves: return the response
FetchReturn(i) ==
    /\ fetchers[i].pc = "get"
    /\ fetchers' = [fetchers EXCEPT ![i].pc = "returned",
                                    ![i].hist = Append(@, Http(200))]
    /\ UNCHANGED mainVars

\* axios.get rejects with a retryable error: log, start the timer
FetchRetry(i, err) ==
    /\ fetchers[i].pc = "get"
    /\ ~Resolves(err)
    /\ Retryable(err, fetchers[i].attempt)
    /\ fetchers' = [fetchers EXCEPT ![i].pc = "delay",
                                    ![i].hist = Append(@, err)]
    /\ UNCHANGED mainVars

\* axios.get rejects otherwise: throw err
FetchThrow(i, err) ==
    /\ fetchers[i].pc = "get"
    /\ ~Resolves(err)
    /\ ~Retryable(err, fetchers[i].attempt)
    /\ fetchers' = [fetchers EXCEPT ![i].pc = "thrown",
                                    ![i].hist = Append(@, err)]
    /\ UNCHANGED mainVars

\* the timer fires: return fetchPdfWithRetry(url, headers, attempt + 1)
FetchDelayElapsed(i) ==
    /\ fetchers[i].pc = "delay"
    /\ fetchers' = [fetchers EXCEPT ![i].pc = "get",
                                    ![i].waited = Append(@, Delay(fetchers[i].attempt)),
                                    ![i].attempt = NextAttempt(@),
                                    ![i].calls = @ + 1]
    /\ UNCHANGED mainVars

NextFetch ==
    \/ \E i \in Fetchers : FetchCall(i)
    \/ \E i \in Fetchers : FetchReturn(i)
    \/ \E i \in Fetchers : \E err \in Outcomes : FetchRetry(i, err)
    \/ \E i \in Fetchers : \E err \in Outcomes : FetchThrow(i, err)
    \/ \E i \in Fetchers : FetchDelayElapsed(i)

SpecFetch == InitFetch /\ [][NextFetch]_vars

All429(h) == \A k \in 1..Len(h) : h[k] = Http(429)

\* the answers so far are k 429s followed by a success
Is429sThenSuccess(h) ==
    /\ Len(h) >= 1
    /\ Last(h) = Http(200)
    /\ \A k \in 1..(Len(h) - 1) : h[k] = Http(429)

Pending(f) == IF f.pc = "get" THEN 1 ELSE 0

\* C4: no call of fetchPdfWithRetry makes more than 5 export attempts, whatever
\* the other calls do; each call's attempt number and attempt count follow its own
\* answers only; a call answered 429 every time throws after exactly 5 attempts.
AttemptCapPerChunk ==
    \A i \in Fetchers :
        LET f == fetchers[i]
        IN  /\ f.calls <= 5
            /\ f.attempt <= 5
            /\ f.calls = Len(f.hist) + Pending(f)
            /\ (f.pc \in {"get", "delay"} => f.attempt = f.calls)
            /\ (f.pc = "thrown" /\ All429(f.hist) => f.calls = 5 /\ Len(f.hist) = 5)
            /\ (All429(f.hist) /\ Len(f.hist) = 5 => f.pc = "thrown")

\* C4 witness: one call has thrown after five 429s while another has made a
\* different number of attempts
AttemptCapWitness ==
    \E i, j \in Fetchers :
        /\ fetchers[i].pc = "thrown"
        /\ All429(fetchers[i].hist)
        /\ fetchers[i].calls = 5
        /\ fetchers[j].pc = "delay"
        /\ fetchers[j].calls = 2

\* C5: a call answered 429 k times (k <= 4) is still retrying, and when the next
\* answer is a success it returns that success on attempt k + 1 and makes no
\* further attempt (two 429s then a success: returned on the 3rd attempt).
RetryRecovers ==
    \A i \in Fetchers :
        LET f == fetchers[i]
        IN  /\ (All429(f.hist) /\ Len(f.hist) <= 4 /\ f.pc # "idle" =>
                   f.pc \in {"get", "delay"})
            /\ (Is429sThenSuccess(f.hist) =>
                   /\ f.pc = "returned"
                   /\ Len(f.hist) <= 5
                   /\ f.attempt = Len(f.hist)
                   /\ f.calls = Len(f.hist)
                   /\ Len(f.waited) = Len(f.hist) - 1)
            /\ (f.pc = "returned" => Is429sThenSuccess(f.hist))

\* C5 witness: two 429s then a success, returned on the 3rd attempt
RetryRecoversWitness ==
    \E i \in Fetchers :
        /\ fetchers[i].pc = "returned"
        /\ fetchers[i].hist = <<Http(429), Http(429), Http(200)>>
        /\ fetchers[i].attempt = 3
        /\ fetchers[i].calls = 3

NonRetryable(r) == ~Resolves(r) /\ ~(r.response /\ r.status = 429)

\* C6: a failure that is not a 429 (another status, or no response at all), at any
\* attempt, is thrown at once: no delay is waited for it and no attempt follows it.
Non429FailsImmediately ==
    \A i \in Fetchers :
        LET f == fetchers[i]
        IN  (Len(f.hist) >= 1 /\ NonRetryable(Last(f.hist))) =>
                /\ f.pc = "thrown"
                /\ f.calls = Len(f.hist)
                /\ Len(f.waited) = Len(f.hist) - 1
                /\ \A k \in 1..(Len(f.hist) - 1) : f.hist[k] = Http(429)

\* C6 witness: a 500 on the first attempt of one call and a failure without a
\* response on the third attempt of another, both thrown
Non429Witness ==
    \E i, j \in Fetchers :
        /\ fetchers[i].pc = "thrown"
        /\ fetchers[i].hist = <<Http(500)>>
        /\ fetchers[j].pc = "thrown"
        /\ fetchers[j].hist = <<Http(429), Http(429), NoResponse>>

-----------------------------------------------------------------------------
(* main(): the sheet loop, the limiter and the chunk tasks *)

\* faulty variant: the two files' caps exchanged
ConcurrencySwapped == IF variant = "index" THEN 4 ELSE 2

\* pLimit(2) in src/index.js, pLimit(4) in src/unnamed/part_000
Concurrency == IF variant = "index" THEN 2 ELSE 4

\* colRes.data.values: for each returned row of K1:K2000, whether its cell is
\* non-empty
ColInputs == UNION {[1..n -> BOOLEAN] : n \in 0..PipeMaxLastRow}

\* let lastRow = 1; for (i = colVals.length - 1; i >= 0; i--) if (colVals[i]?.[0])
\* { lastRow = i + 1; break; }     (rows are numbered from 1 here)
\* faulty variant: lastRow starts at 0 instead of 1
RECURSIVE ScanLastRowFromZero(_, _)
ScanLastRowFromZero(colVals, i) ==
    IF i < 1 THEN 0
    ELSE IF colVals[i] THEN i
    ELSE ScanLastRowFromZero(colVals, i - 1)

RECURSIVE ScanLastRow(_, _)
ScanLastRow(colVals, i) ==
    IF i < 1 THEN 1
    ELSE IF colVals[i] THEN i
    ELSE ScanLastRow(colVals, i - 1)

DetectLastRow(colVals) == ScanLastRow(colVals, Len(colVals))

\* the last row of colVals whose cell is non-empty, 0 when there is none
RECURSIVE LastOccupied(_, _)
LastOccupied(colVals, i) ==
    IF i < 1 THEN 0
    ELSE IF colVals[i] THEN i
    ELSE LastOccupied(colVals, i - 1)

\* faulty variant: the chunk bounds are left out of the name
StagePathBySheetOnly(sheetName, chunk, ext) ==
    [sheet |-> sheetName, startRow |-> 0, endRow |-> 0, ext |-> ext]

\* path.join(tmpDir, `${sheetName}_${chunk.startRow}-${chunk.endRow}.` + ext)
StagePath(sheetName, chunk, ext) ==
    [sheet |-> sheetName, startRow |-> chunk.startRow, endRow |-> chunk.endRow,
     ext |-> ext]

PdfPath(sheetName, chunk) == StagePath(sheetName, chunk, "pdf")

PngPath(sheetName, chunk) == StagePath(sheetName, chunk, "png")

\* part_000: r.pdfPath.replace('.pdf', '') + '.png'
PngOf(pdfPath) == [pdfPath EXCEPT !.ext = "png"]

\* path.basename: the name within tmpDir
BaseName(path) == path

Task(st, attempt) == [st |-> st, attempt |-> attempt]

\* a started function that has not settled: awaiting axios.get, awaiting the
\* backoff timer, awaiting the conversion process
InFlight == {"get", "delay", "convert"}

Settled == {"resolved", "rejected"}

\* which functions the promises awaited now run
Kind == IF mainPc = "awaitConvert" THEN "convert" ELSE "export"

\* faulty variant: every function starts with the conversion
StartFnConvertFirst(kind) == Task("convert", 0)

\* the function handed to limit(), up to its first await: the export functions
\* call fetchPdfWithRetry (attempt = 1), part_000's second ones call convertPdfToPng
StartFn(kind) == IF kind = "convert" THEN Task("convert", 0) ELSE Task("get", 1)

\* p-limit, run: activeCount++ and the function dequeued is called
LimitRun(L, kind) ==
    [tasks |-> [L.tasks EXCEPT ![Head(L.queue)] = StartFn(kind)],
     activeCount |-> L.activeCount + 1,
     queue |-> Tail(L.queue)]

\* p-limit, enqueue: after each limit(fn), if (activeCount < concurrency &&
\* queue.size > 0) the head of the queue is run
RECURSIVE LimitPump(_, _)
LimitPump(L, kind) ==
    IF L.activeCount < Concurrency /\ Len(L.queue) > 0
    THEN LimitPump(LimitRun(L, kind), kind)
    ELSE L

\* items.map(item => limit(fn)) over n items, with p-limit's counter at active
LimitMap(n, active, kind) ==
    LimitPump([tasks |-> [i \in 1..n |-> Task("queued", 0)],
               activeCount |-> active,
               queue |-> [i \in 1..n |-> i]], kind)

\* faulty variant: the queue is not served when a promise settles
LimitNextDrops(L, kind) == [L EXCEPT !.activeCount = @ - 1]

\* p-limit, next: activeCount--, and the head of the queue, if any, is run
LimitNext(L, kind) ==
    LET dec == [L EXCEPT !.activeCount = @ - 1]
    IN  IF Len(dec.queue) > 0 THEN LimitRun(dec, kind) ELSE dec

\* faulty variant: Promise.allSettled, which waits for all and never rejects
PromiseAllSettled(ts) ==
    IF \A i \in 1..Len(ts) : ts[i].st \in Settled THEN "fulfilled" ELSE "pending"

\* await Promise.all(promises): rejects as soon as one promise rejects, fulfils
\* when all have, with the values in the order of the promises
PromiseAll(ts) ==
    IF \E i \in 1..Len(ts) : ts[i].st = "rejected" THEN "rejected"
    ELSE IF \A i \in 1..Len(ts) : ts[i].st = "resolved" THEN "fulfilled"
    ELSE "pending"

\* faulty variant: the operands exchanged
CompareReversed(a, b) == b.startRow - a.startRow

\* (a, b) => a.startRow - b.startRow
Compare(a, b) == a.startRow - b.startRow

\* the elements of s that the sort places before s[i]: those Compare orders
\* first and, the sort being stable, the earlier ones among equals
SortedBefore(s, i) ==
    {j \in 1..Len(s) : \/ Compare(s[j], s[i]) < 0
                       \/ (Compare(s[j], s[i]) = 0 /\ j < i)}

\* Array.prototype.sort with Compare (stable)
SortResults(s) ==
    [k \in 1..Len(s) |->
        s[CHOOSE i \in 1..Len(s) : Cardinality(SortedBefore(s, i)) = k - 1]]

\* faulty variant: the result is tagged with the row after the item's startRow
ResultTagShifted(kind, item) ==
    IF variant = "index"
    THEN [path |-> PngPath(sheet, item), fileName |-> BaseName(PngPath(sheet, item)),
          startRow |-> item.startRow + 1]
    ELSE IF kind = "export"
    THEN [pdfPath |-> PdfPath(sheet, item), startRow |-> item.startRow + 1]
    ELSE [pngPath |-> PngOf(item.pdfPath), fileName |-> BaseName(PngOf(item.pdfPath)),
          startRow |-> item.startRow + 1, pdfPath |-> item.pdfPath]

\* what the function handed to limit() returns for its item:
\*   index.js            { path: finalPngPath, fileName, startRow: chunk.startRow }
\*   part_000, export    { pdfPath, startRow: chunk.startRow }
\*   part_000, convert   { pngPath, fileName, startRow: r.startRow, pdfPath: r.pdfPath }
ResultOf(kind, item) ==
    IF variant = "index"
    THEN [path |-> PngPath(sheet, item), fileName |-> BaseName(PngPath(sheet, item)),
          startRow |-> item.startRow]
    ELSE IF kind = "export"
    THEN [pdfPath |-> PdfPath(sheet, item), startRow |-> item.startRow]
    ELSE [pngPath |-> PngOf(item.pdfPath), fileName |-> BaseName(PngOf(item.pdfPath)),
          startRow |-> item.startRow, pdfPath |-> item.pdfPath]

\* the values Promise.all fulfils with: one per item, in the items' order
ResultsOf(kind, items) == [k \in 1..Len(items) |-> ResultOf(kind, items[k])]

\* faulty variant: every entry carries the caption
CaptionOnEvery(index) == "captionText"

\* caption: index === 0 ? captionText : undefined
CaptionAt(index) == IF index = 0 THEN "captionText" ELSE "undefined"

\* albumImages (pngResults) with, for each image, the caption of its entry of
\* const media
WithCaptions(images) ==
    [k \in 1..Len(images) |->
        [f \in DOMAIN images[k] \cup {"caption"} |->
            IF f = "caption" THEN CaptionAt(k - 1) ELSE images[k][f]]]

\* the item of promise i: a chunk, or in part_000's second phase an entry of
\* pdfResults
ItemOf(i) == IF Kind = "convert" THEN pdfResults[i] ELSE chunks[i]

\* the PDF promise i writes (export) or reads (conversion)
PdfPathOf(i) == IF Kind = "convert" THEN pdfResults[i].pdfPath ELSE PdfPath(sheet, chunks[i])

\* the PNG the conversion of promise i writes
PngPathOf(i) == PngOf(PdfPathOf(i))

\* fs.writeFileSync(pdfPath, ...) / the converter's output, by the promise of item i
Staged(path, i) == [path |-> path, by |-> ItemOf(i).startRow]

\* the paths the cleanup after sendMediaGroup unlinks: index.js img.path;
\* part_000 img.pngPath and img.pdfPath
Unlinked(images) ==
    IF variant = "index"
    THEN {images[k].path : k \in 1..Len(images)}
    ELSE {images[k].pngPath : k \in 1..Len(images)}
             \cup {images[k].pdfPath : k \in 1..Len(images)}

Init ==
    /\ variant \in {"index", "part"}
    /\ MAX_ROWS_PER_FILE \in 1..PipeMaxRows
    /\ sheet = 1
    /\ mainPc = "lookup"
    /\ lastRow = 1
    /\ startRow = 1
    /\ chunks = <<>>
    /\ activeCount = 0
    /\ queue = <<>>
    /\ tasks = <<>>
    /\ reversed = TRUE
    /\ pdfResults = <<>>
    /\ album = <<>>
    /\ sent = <<>>
    /\ caught = "none"
    /\ fetchers = <<>>
    /\ occupied = 1
    /\ tmpDir = TRUE
    /\ files = {}

\* the for..of loop moves on: the next sheet's lookups, or the end of main
\* faulty variant: the loop takes the same sheet again
AdvanceSheetStays(left) ==
    /\ sheet' = sheet
    /\ mainPc' = "lookup"
    /\ files' = left
    /\ tmpDir' = TRUE

\* after the last sheet: fs.rmSync(tmpDir, { recursive: true, force: true })
AdvanceSheet(left) ==
    /\ sheet' = sheet + 1
    /\ mainPc' = IF sheet + 1 > NumSheets THEN "done" ELSE "lookup"
    /\ files' = IF sheet + 1 > NumSheets THEN {} ELSE left
    /\ tmpDir' = (sheet + 1 <= NumSheets)

\* sheet not found, or K6 empty: continue
SkipSheet ==
    /\ mainPc = "lookup"
    /\ AdvanceSheet(files)
    /\ UNCHANGED <<variant, MAX_ROWS_PER_FILE, lastRow, startRow, chunks, activeCount,
                   queue, tasks, reversed, pdfResults, album, sent, caught, fetchers,
                   occupied>>

\* the lookups return: lastRow is detected, the chunk loop is entered
DetectRows(colVals) ==
    /\ mainPc = "lookup"
    /\ lastRow' = DetectLastRow(colVals)
    /\ occupied' = LastOccupied(colVals, Len(colVals))
    /\ chunks' = <<>>
    /\ startRow' = 1
    /\ mainPc' = "build"
    /\ UNCHANGED <<variant, MAX_ROWS_PER_FILE, sheet, activeCount, queue, tasks,
                   reversed, pdfResults, album, sent, caught, fetchers, tmpDir, files>>

\* the chunk loop is left: chunks.map(chunk => limit(...)), await Promise.all
Dispatch ==
    /\ Planned
    /\ LET L == LimitMap(Len(chunks), activeCount, "export")
       IN  /\ tasks' = L.tasks
           /\ activeCount' = L.activeCount
           /\ queue' = L.queue
    /\ reversed' = TRUE
    /\ mainPc' = "await"
    /\ UNCHANGED <<variant, MAX_ROWS_PER_FILE, sheet, lastRow, startRow, chunks,
                   pdfResults, album, sent, caught, fetchers, occupied, tmpDir, files>>

\* promise i settles after every promise of higher index and before every promise
\* of lower index settled so far
InReverse(i) ==
    /\ reversed
    /\ \A j \in 1..Len(tasks) : tasks[j].st \in Settled <=> j > i

Awaiting == mainPc \in {"await", "awaitConvert"}

\* Promise i settles: p-limit's next runs (it follows the function's settling,
\* fulfilled or rejected, and starts the head of the queue), then Promise.all is
\* decided and main goes on to its next await, or to its catch, whose
\* process.exit(1) ends the program with the other promises as they are
Settle(i, outcome) ==
    \E L \in {LimitNext([tasks |-> [tasks EXCEPT ![i] = Task(outcome, 0)],
                          activeCount |-> activeCount,
                          queue |-> queue], Kind)} :
    \E all \in {PromiseAll(L.tasks)} :
        IF all = "rejected"
        THEN \* catch (err): console.error, process.exit(1)
             /\ tasks' = L.tasks
             /\ activeCount' = L.activeCount
             /\ queue' = L.queue
             /\ reversed' = InReverse(i)
             /\ mainPc' = "exit"
             /\ caught' = (IF tasks[i].st = "convert" THEN "convert" ELSE "export")
             /\ UNCHANGED <<pdfResults, album, sent>>
        ELSE IF all = "pending"
        THEN /\ tasks' = L.tasks
             /\ activeCount' = L.activeCount
             /\ queue' = L.queue
             /\ reversed' = InReverse(i)
             /\ UNCHANGED <<mainPc, pdfResults, album, sent, caught>>
        ELSE IF variant = "part" /\ mainPc = "await"
        THEN \* pdfResults.sort(...); pdfResults.map(r => limit(...))
             \E sorted \in {SortResults(ResultsOf("export", chunks))} :
             \E M \in {LimitMap(Len(sorted), L.activeCount, "convert")} :
                 /\ pdfResults' = sorted
                 /\ tasks' = M.tasks
                 /\ activeCount' = M.activeCount
                 /\ queue' = M.queue
                 /\ reversed' = TRUE
                 /\ mainPc' = "awaitConvert"
                 /\ UNCHANGED <<album, sent, caught>>
        ELSE \* results.sort(...); the album is built and posted
             \E items \in {IF variant = "part" THEN pdfResults ELSE chunks} :
             \E sorted \in {SortResults(ResultsOf(Kind, items))} :
                 /\ album' = WithCaptions(sorted)
                 /\ sent' = Append(sent, sheet)
                 /\ tasks' = L.tasks
                 /\ activeCount' = L.activeCount
                 /\ queue' = L.queue
                 /\ reversed' = InReverse(i)
                 /\ mainPc' = "send"
                 /\ UNCHANGED <<pdfResults, caught>>

\* index.js: the export returned; the PDF is written and the conversion started
ExportOkIndex(i) ==
    /\ Awaiting
    /\ variant = "index"
    /\ tasks[i].st = "get"
    /\ tasks' = [tasks EXCEPT ![i] = Task("convert", 0)]
    /\ files' = files \cup {Staged(PdfPathOf(i), i)}
    /\ UNCHANGED <<variant, MAX_ROWS_PER_FILE, sheet, mainPc, lastRow, startRow, chunks,
                   activeCount, queue, reversed, pdfResults, album, sent, caught, fetchers,
                   occupied, tmpDir>>

\* part_000: the export returned; the PDF is written and the function returns
ExportOkPart(i) ==
    /\ Awaiting
    /\ variant = "part"
    /\ tasks[i].st = "get"
    /\ files' = files \cup {Staged(PdfPathOf(i), i)}
    /\ Settle(i, "resolved")
    /\ UNCHANGED <<variant, MAX_ROWS_PER_FILE, sheet, lastRow, startRow, chunks, fetchers,
                   occupied, tmpDir>>

\* fetchPdfWithRetry: a retryable rejection, the timer is started
ExportRetry(i, err) ==
    /\ Awaiting
    /\ tasks[i].st = "get"
    /\ ~Resolves(err)
    /\ Retryable(err, tasks[i].attempt)
    /\ tasks' = [tasks EXCEPT ![i].st = "delay"]
    /\ UNCHANGED <<variant, MAX_ROWS_PER_FILE, sheet, mainPc, lastRow, startRow, chunks,
                   activeCount, queue, reversed, pdfResults, album, sent, caught, fetchers, occupied, tmpDir, files>>

\* fetchPdfWithRetry: the timer fires, axios.get is issued with attempt + 1
ExportDelayElapsed(i) ==
    /\ Awaiting
    /\ tasks[i].st = "delay"
    /\ tasks' = [tasks EXCEPT ![i] = Task("get", NextAttempt(tasks[i].attempt))]
    /\ UNCHANGED <<variant, MAX_ROWS_PER_FILE, sheet, mainPc, lastRow, startRow, chunks,
                   activeCount, queue, reversed, pdfResults, album, sent, caught, fetchers, occupied, tmpDir, files>>

\* fetchPdfWithRetry throws: the chunk's promise rejects
ExportThrow(i, err) ==
    /\ Awaiting
    /\ tasks[i].st = "get"
    /\ ~Resolves(err)
    /\ ~Retryable(err, tasks[i].attempt)
    /\ Settle(i, "rejected")
    /\ UNCHANGED <<variant, MAX_ROWS_PER_FILE, sheet, lastRow, startRow, chunks, fetchers, occupied, tmpDir, files>>

\* the conversion resolves with the PNG path: the chunk's promise fulfils
ConvertOk(i) ==
    /\ Awaiting
    /\ tasks[i].st = "convert"
    /\ files' = files \cup {Staged(PngPathOf(i), i)}
    /\ Settle(i, "resolved")
    /\ UNCHANGED <<variant, MAX_ROWS_PER_FILE, sheet, lastRow, startRow, chunks, fetchers,
                   occupied, tmpDir>>

\* the conversion rejects (spawn error, non-zero exit, no PNG written)
ConvertFail(i) ==
    /\ Awaiting
    /\ tasks[i].st = "convert"
    /\ Settle(i, "rejected")
    /\ UNCHANGED <<variant, MAX_ROWS_PER_FILE, sheet, lastRow, startRow, chunks, fetchers, occupied, tmpDir, files>>

\* sendMediaGroup answers: the staged files are removed and the loop moves on; the
\* iteration's block-scoped variables are gone
SendOk ==
    /\ mainPc = "send"
    /\ AdvanceSheet({f \in files : f.path \notin Unlinked(album)})
    /\ lastRow' = 1
    /\ occupied' = 1
    /\ startRow' = 1
    /\ chunks' = <<>>
    /\ tasks' = <<>>
    /\ reversed' = TRUE
    /\ pdfResults' = <<>>
    /\ album' = <<>>
    /\ UNCHANGED <<variant, MAX_ROWS_PER_FILE, activeCount, queue, sent, caught, fetchers>>

\* sendMediaGroup fails: catch (err), console.error, process.exit(1)
\* faulty variant: a failed upload is posted again
SendFailRetries ==
    /\ mainPc = "send"
    /\ Len(sent) < 2 * NumSheets
    /\ sent' = Append(sent, sheet)
    /\ UNCHANGED <<variant, MAX_ROWS_PER_FILE, sheet, mainPc, lastRow, startRow, chunks,
                   activeCount, queue, tasks, reversed, pdfResults, album, caught,
                   fetchers, occupied, tmpDir, files>>

SendFail ==
    /\ mainPc = "send"
    /\ mainPc' = "exit"
    /\ caught' = "send"
    /\ UNCHANGED <<variant, MAX_ROWS_PER_FILE, sheet, lastRow, startRow, chunks,
                   activeCount, queue, tasks, reversed, pdfResults, album, sent, fetchers, occupied, tmpDir, files>>

TaskIds == 1..Len(tasks)

Next ==
    \/ SkipSheet
    \/ \E colVals \in ColInputs : DetectRows(colVals)
    \/ BuildStep
    \/ Dispatch
    \/ \E i \in TaskIds : ExportOkIndex(i)
    \/ \E i \in TaskIds : ExportOkPart(i)
    \/ \E i \in TaskIds : \E err \in Outcomes : ExportRetry(i, err)
    \/ \E i \in TaskIds : ExportDelayElapsed(i)
    \/ \E i \in TaskIds : \E err \in Outcomes : ExportThrow(i, err)
    \/ \E i \in TaskIds : ConvertOk(i)
    \/ \E i \in TaskIds : ConvertFail(i)
    \/ SendOk
    \/ SendFail

Spec == Init /\ [][Next]_vars

\* the columns of at most LiveMaxLastRow rows
LiveColInputs == UNION {[1..n -> BOOLEAN] : n \in 0..LiveMaxLastRow}

\* Next over the shorter columns
NextLive ==
    \/ SkipSheet
    \/ \E colVals \in LiveColInputs : DetectRows(colVals)
    \/ BuildStep
    \/ Dispatch
    \/ \E i \in TaskIds : ExportOkIndex(i)
    \/ \E i \in TaskIds : ExportOkPart(i)
    \/ \E i \in TaskIds : \E err \in Outcomes : ExportRetry(i, err)
    \/ \E i \in TaskIds : ExportDelayElapsed(i)
    \/ \E i \in TaskIds : \E err \in Outcomes : ExportThrow(i, err)
    \/ \E i \in TaskIds : ConvertOk(i)
    \/ \E i \in TaskIds : ConvertFail(i)
    \/ SendOk
    \/ SendFail

\* main() under the assumption that every pending call (lookup, axios.get,
\* timer, converter, axios.post) eventually returns
SpecLive == Init /\ [][NextLive]_vars /\ WF_vars(NextLive)

-----------------------------------------------------------------------------
(* Claims about main() *)

StartRows(s) == [k \in 1..Len(s) |-> s[k].startRow]

\* promises that p-limit has started and that have not settled
Running == {i \in 1..Len(tasks) : tasks[i].st \in InFlight}

\* C7: whatever order the chunk promises settle in, the album handed to
\* sendMediaGroup is in strictly ascending startRow order: it lists the planned
\* chunks' startRows in the planned order.
AlbumInRowOrder ==
    mainPc = "send" =>
        /\ \A a \in 1..(Len(album) - 1) : album[a].startRow < album[a + 1].startRow
        /\ StartRows(album) = StartRows(chunks)

\* C7 witness: three or more chunks settled in fully reversed order (last chunk
\* first, first chunk last) and their album is being sent
ReversedCompletionWitness ==
    /\ mainPc = "send"
    /\ Len(chunks) >= 3
    /\ reversed
    /\ Len(album) = Len(chunks)

\* C8: once the export or the conversion of a chunk of the current sheet has
\* failed, main has ended in its catch and no album of that sheet was or is
\* handed to sendMediaGroup.
FailFastNoPartialAlbum ==
    (\E i \in 1..Len(tasks) : tasks[i].st = "rejected") =>
        /\ mainPc = "exit"
        /\ \A k \in 1..Len(sent) : sent[k] # sheet

\* C8 witness: the second of three chunks failed its conversion after a sibling
\* had succeeded, and the run has ended
FailFastWitness ==
    /\ mainPc = "exit"
    /\ Len(tasks) = 3
    /\ tasks[2].st = "rejected"
    /\ tasks[1].st = "resolved"
    /\ caught = "convert"
    /\ \A k \in 1..Len(sent) : sent[k] # sheet

\* C9: the promises started and not settled never number more than the cap (2 in
\* src/index.js, 4 in src/unnamed/part_000), and a promise beyond the cap is
\* started only once enough earlier ones have settled.
ConcurrencyCapRespected ==
    /\ Cardinality(Running) <= (IF variant = "index" THEN 2 ELSE 4)
    /\ \A i \in 1..Len(tasks) :
           (tasks[i].st # "queued" /\ i > (IF variant = "index" THEN 2 ELSE 4)) =>
               Cardinality({j \in 1..Len(tasks) : tasks[j].st \in Settled})
                   >= i - (IF variant = "index" THEN 2 ELSE 4)

\* C9 witness: in part_000 four exports are running, the fifth chunk was started
\* after one settled
ConcurrencyCapWitness ==
    /\ variant = "part"
    /\ mainPc = "await"
    /\ Cardinality(Running) = 4
    /\ Len(tasks) >= 5
    /\ tasks[5].st \in InFlight

\* C10 as stated: whenever main has reported failure and ended, no dispatched
\* export or conversion is still in flight.
NoOrphanedWorkOnFailure ==
    mainPc = "exit" => Running = {}

\* the number of sendMediaGroup calls made for sheet s
Uploads(s) == Cardinality({k \in 1..Len(sent) : sent[k] = s})

\* C11: whenever sendMediaGroup is called, the album has exactly one artifact per
\* planned chunk: as many artifacts as chunks, pairwise distinct startRow tags,
\* and every artifact is the file of one planned chunk and carries that chunk's
\* startRow.
OneArtifactPerChunk ==
    mainPc = "send" =>
        /\ Len(album) = Len(chunks)
        /\ \A a, b \in 1..Len(album) : a # b => album[a].startRow # album[b].startRow
        /\ \A a \in 1..Len(album) :
               \E k \in 1..Len(chunks) :
                   /\ album[a].fileName = BaseName(PngPath(sheet, chunks[k]))
                   /\ album[a].startRow = chunks[k].startRow

\* C11 witness: part_000 sends the album of a sheet planned as five chunks
OneArtifactPerChunkWitness ==
    /\ mainPc = "send"
    /\ variant = "part"
    /\ Len(chunks) = 5
    /\ Len(album) = 5

\* C12: in the album handed to sendMediaGroup the first entry carries the
\* caption and no other entry does, and the whole album of the sheet (one entry
\* per chunk) goes out in one single call.
CaptionOnFirstOnly ==
    mainPc = "send" =>
        /\ album[1].caption = "captionText"
        /\ \A a \in 2..Len(album) : album[a].caption = "undefined"
        /\ Uploads(sheet) = 1
        /\ Len(album) = Len(chunks)

\* C12 witness: index.js sends an album of several images, the first captioned,
\* the second not
CaptionWitness ==
    /\ mainPc = "send"
    /\ variant = "index"
    /\ Len(album) >= 2
    /\ album[1].caption = "captionText"
    /\ album[2].caption = "undefined"

\* C13: sendMediaGroup is called at most once for a sheet, and when the call
\* fails main ends in its catch with no further call: the failed call is the
\* last one made.
DeliveryNeverRetried ==
    /\ \A s \in 1..NumSheets : Uploads(s) <= 1
    /\ caught = "send" =>
           /\ mainPc = "exit"
           /\ Last(sent) = sheet
           /\ Uploads(sheet) = 1

\* C13 witness: the upload of the second sheet failed after the first sheet's
\* album was delivered, and main has ended
DeliveryFailedWitness ==
    /\ mainPc = "exit"
    /\ caught = "send"
    /\ sent = <<1, 2>>

StagingReleasedOnEveryExit ==
    mainPc \in {"done", "exit"} => (files = {} /\ ~tmpDir)

\* C16: every retry of a call of fetchPdfWithRetry is preceded by a wait: the
\* call has waited once per attempt after the first, the wait after failed
\* attempt k is 2000 * k ms, so the waits grow strictly, and a call waits at most
\* 4 times.
BackoffSchedule ==
    \A i \in Fetchers :
        LET f == fetchers[i]
        IN  /\ Len(f.waited) <= 4
            /\ f.pc # "idle" => f.calls = Len(f.waited) + 1
            /\ \A k \in 1..Len(f.waited) : f.waited[k] = 2000 * k
            /\ \A k \in 1..(Len(f.waited) - 1) : f.waited[k] < f.waited[k + 1]

\* C16 witness: a call has waited 2000, 4000, 6000 and 8000 ms and is making its
\* fifth attempt
FullBackoffWitness ==
    \E i \in Fetchers :
        /\ fetchers[i].waited = <<2000, 4000, 6000, 8000>>
        /\ fetchers[i].pc = "get"
        /\ fetchers[i].calls = 5

\* the files of tmpDir written by the promise of item i of the current sheet
StagedBy(i) == {f \in files : f.path.sheet = sheet /\ f.by = ItemOf(i).startRow}

\* C17: two different chunk promises in flight at the same time have different
\* PDF paths and different PNG paths, none of which is a path of the other, and
\* no file of tmpDir was written by two chunks: a conversion reads a PDF that
\* only its own chunk wrote.
DisjointStagingKeys ==
    /\ \A i, j \in Running :
           i # j =>
               {PdfPathOf(i), PngPathOf(i)} \cap {PdfPathOf(j), PngPathOf(j)} = {}
    /\ \A f, g \in files : f.path = g.path => f.by = g.by
    /\ \A i \in 1..Len(tasks) :
           tasks[i].st = "convert" =>
               \A f \in files : f.path = PdfPathOf(i) => f.by = ItemOf(i).startRow

\* C17 witness: two conversions of the same sheet run at the same time, each on
\* its staged PDF
ConcurrentRendersWitness ==
    \E i, j \in Running :
        /\ i # j
        /\ tasks[i].st = "convert"
        /\ tasks[j].st = "convert"
        /\ StagedBy(i) # {}
        /\ StagedBy(j) # {}

\* C18: a chunk's conversion runs only after that chunk's export returned and its
\* PDF was written; a PNG exists only next to its chunk's PDF while the sheet is
\* processed; a chunk whose export failed has staged nothing and is not
\* converted.
ConversionAfterExport ==
    /\ \A i \in 1..Len(tasks) :
           tasks[i].st = "convert" => Staged(PdfPathOf(i), i) \in files
    /\ \A f \in files :
           (f.path.sheet = sheet /\ f.path.ext = "png") =>
               [f EXCEPT !.path.ext = "pdf"] \in files
    /\ \A i \in 1..Len(tasks) :
           (tasks[i].st = "rejected" /\ caught = "export") => StagedBy(i) = {}

\* C18 witness: in index.js one chunk is being converted while the export of a
\* sibling waits for a retry
ConvertWhileSiblingRetriesWitness ==
    /\ variant = "index"
    /\ \E i, j \in 1..Len(tasks) :
           /\ tasks[i].st = "convert"
           /\ tasks[j].st = "delay"
           /\ Staged(PdfPathOf(i), i) \in files

Ended == mainPc \in {"done", "exit"}

\* promise i of the current Promise.all waits in p-limit's queue
Queued(i) == i <= Len(tasks) /\ tasks[i].st = "queued"

\* promise i of the current Promise.all has resolved
Rendered(i) == i <= Len(tasks) /\ tasks[i].st = "resolved"

\* C19: when every pending call eventually returns, main eventually ends, with
\* every sheet delivered or skipped or in its catch; and every promise waiting in
\* p-limit's queue (the first two never wait) is eventually started and
\* resolves, unless main ends in its catch.
PipelineTerminates ==
    /\ <>Ended
    /\ [](\A i \in 1..2 : ~Queued(i))
    /\ \A i \in 3..LiveMaxLastRow : Queued(i) ~> (Rendered(i) \/ mainPc = "exit")

\* C19 witness: every chunk of a three-chunk sheet of index.js, the third of
\* which had to wait in the queue, has resolved and the album is being sent
QueuedChunkRenderedWitness ==
    /\ variant = "index"
    /\ mainPc = "send"
    /\ Len(tasks) = 3
    /\ \A i \in 1..3 : tasks[i].st = "resolved"

\* C20: the sheets are processed strictly one after another. Albums are posted in
\* sheet order, none for a sheet not yet reached; promises are in flight only
\* while main awaits the current sheet's Promise.all (or has died in its catch),
\* and then every album posted belongs to an earlier sheet; nothing is staged
\* for a later sheet; the album posted holds only files of its own sheet; and
\* after a failure main has ended, so no later sheet is exported or delivered.
SheetsStrictlySequential ==
    /\ \A k \in 1..(Len(sent) - 1) : sent[k] < sent[k + 1]
    /\ \A k \in 1..Len(sent) : sent[k] <= sheet
    /\ Running # {} => mainPc \in {"await", "awaitConvert", "exit"}
    /\ mainPc \in {"await", "awaitConvert"} => \A k \in 1..Len(sent) : sent[k] < sheet
    /\ \A f \in files : f.path.sheet <= sheet
    /\ mainPc = "send" =>
           /\ Last(sent) = sheet
           /\ \A a \in 1..Len(album) : album[a].fileName.sheet = sheet
    /\ caught # "none" => mainPc = "exit"

\* C20 witness: the first sheet's album was delivered and two chunks of the
\* second sheet are in flight
SecondSheetInFlightWitness ==
    /\ sheet = 2
    /\ sent = <<1>>
    /\ mainPc = "await"
    /\ Cardinality(Running) = 2

=============================================================================
